---------------------------- MODULE Spec2Model ----------------------------
(***************************************************************************)
(* Title-case engine of the BibTeX hygiene toolkit (src/titlecases.py).    *)
(*                                                                         *)
(* A Python str is modelled as a sequence of one-character strings, so     *)
(* that case conversion, punctuation stripping, splitting and joining are  *)
(* computed character by character as the interpreter does.                *)
(***************************************************************************)
EXTENDS Integers, Sequences, FiniteSets, TLC

(***************************************************************************)
(* Characters.                                                             *)
(***************************************************************************)
LowerLetters ==
    <<"a", "b", "c", "d", "e", "f", "g", "h", "i", "j", "k", "l", "m",
      "n", "o", "p", "q", "r", "s", "t", "u", "v", "w", "x", "y", "z">>

UpperLetters ==
    <<"A", "B", "C", "D", "E", "F", "G", "H", "I", "J", "K", "L", "M",
      "N", "O", "P", "Q", "R", "S", "T", "U", "V", "W", "X", "Y", "Z">>

Digits == {"0", "1", "2", "3", "4", "5", "6", "7", "8", "9"}

Range(s) == {s[i] : i \in DOMAIN s}

LowerSet == Range(LowerLetters)

UpperSet == Range(UpperLetters)

\* Python's \s and str.isspace on the characters of the model
Whitespace == {" ", "\n", "\t"}

\* the character class [A-Za-z0-9] of the regular expressions
IsAlnum(c) == c \in LowerSet \cup UpperSet \cup Digits

IsSpaceChar(c) == c \in Whitespace

\* str.lower / str.upper on one character: letters map to their partner,
\* every other character (digits, punctuation, whitespace) maps to itself
LowerOf == [c \in UpperSet |->
               LowerLetters[CHOOSE i \in DOMAIN UpperLetters : UpperLetters[i] = c]]

UpperOf == [c \in LowerSet |->
               UpperLetters[CHOOSE i \in DOMAIN LowerLetters : LowerLetters[i] = c]]

CharLower(c) == IF c \in UpperSet THEN LowerOf[c] ELSE c

CharUpper(c) == IF c \in LowerSet THEN UpperOf[c] ELSE c

(***************************************************************************)
(* str methods used by the engine.                                         *)
(***************************************************************************)
\* str.lower()
Lower(s) == [i \in DOMAIN s |-> CharLower(s[i])]

\* str.capitalize(): first character upper-cased, the rest lower-cased
Capitalize(s) ==
    [i \in DOMAIN s |-> IF i = 1 THEN CharUpper(s[i]) ELSE CharLower(s[i])]

\* str.isupper(): at least one cased character and no lower-case one
IsUpper(s) ==
    /\ \E i \in DOMAIN s : s[i] \in UpperSet
    /\ \A i \in DOMAIN s : s[i] \notin LowerSet

\* mutant: the length test is off by one
IsAcronymLong(s) == IsUpper(s) /\ Len(s) > 2

\* the acronym test `x.isupper() and len(x) >= 2`
IsAcronym(s) == IsUpper(s) /\ Len(s) >= 2

\* str.isspace(): non-empty and whitespace only
IsSpace(s) == s # <<>> /\ \A i \in DOMAIN s : IsSpaceChar(s[i])

\* re.sub(r"[^A-Za-z0-9]", "", s)
CleanAlnum(s) == SelectSeq(s, IsAlnum)

\* re.search(r"[A-Za-z0-9]", s) is not None
HasAlnum(s) == \E i \in DOMAIN s : IsAlnum(s[i])

\* sep.join(parts)
RECURSIVE Join(_, _)
Join(parts, sep) ==
    IF parts = <<>> THEN <<>>
    ELSE IF Len(parts) = 1 THEN parts[1]
    ELSE parts[1] \o sep \o Join(Tail(parts), sep)

\* s.split(sep) for a one-character separator: empty parts are kept
RECURSIVE SplitOn(_, _)
SplitOn(s, sep) ==
    IF \A i \in DOMAIN s : s[i] # sep THEN <<s>>
    ELSE LET i == CHOOSE k \in DOMAIN s :
                     s[k] = sep /\ \A m \in 1..(k - 1) : s[m] # sep
         IN  <<SubSeq(s, 1, i - 1)>> \o SplitOn(SubSeq(s, i + 1, Len(s)), sep)

(***************************************************************************)
(* Module-level tables.                                                    *)
(***************************************************************************)
APA_STOPWORDS ==
    { <<"a">>, <<"a", "n">>, <<"a", "n", "d">>, <<"a", "s">>, <<"a", "t">>,
      <<"b", "u", "t">>, <<"b", "y">>, <<"f", "o", "r">>, <<"f", "r", "o", "m">>,
      <<"i", "n">>, <<"i", "n", "t", "o">>, <<"n", "o", "r">>, <<"o", "f">>, <<"o", "n">>,
      <<"o", "n", "t", "o">>, <<"o", "r">>, <<"o", "v", "e", "r">>, <<"p", "e", "r">>,
      <<"t", "h", "e">>, <<"t", "o">>, <<"v", "s">>, <<"v", "i", "a">>,
      <<"w", "i", "t", "h">>, <<"u", "p">>, <<"d", "o", "w", "n">>, <<"o", "f", "f">> }

_LOWERCASE_PREFIXES ==
    { <<"e">>, <<"r", "e">>, <<"p", "r", "e">>, <<"n", "o", "n">>, <<"s", "e", "l", "f">>,
      <<"c", "o">>, <<"m", "u", "l", "t", "i">>, <<"c", "r", "o", "s", "s">>,
      <<"s", "e", "m", "i">>, <<"a", "n", "t", "i">>, <<"d", "e">>, <<"u", "n">>,
      <<"s", "u", "b">>, <<"i", "n", "t", "e", "r">>, <<"i", "n", "t", "r", "a">>,
      <<"e", "x">>, <<"m", "i", "d">>, <<"o", "v", "e", "r">>,
      <<"u", "n", "d", "e", "r">>, <<"o", "u", "t">>, <<"p", "o", "s", "t">>,
      <<"m", "e", "t", "a">> }

KNOWN_MIXED_CASE ==
    { <<"i", "O", "S">>, <<"m", "a", "c", "O", "S">>, <<"i", "P", "h", "o", "n", "e">>,
      <<"i", "P", "a", "d">>, <<"i", "P", "o", "d">>, <<"e", "B", "a", "y">>,
      <<"e", "B", "o", "o", "k">>, <<"p", "H">>, <<"m", "R", "N", "A">>,
      <<"t", "R", "N", "A">>, <<"r", "R", "N", "A">>, <<"d", "B">>, <<"M", "H", "z">>,
      <<"G", "H", "z">>, <<"k", "H", "z">>, <<"a", "r", "X", "i", "v">>,
      <<"G", "i", "t", "H", "u", "b">>, <<"Y", "o", "u", "T", "u", "b", "e">>,
      <<"J", "a", "v", "a", "S", "c", "r", "i", "p", "t">>,
      <<"T", "y", "p", "e", "S", "c", "r", "i", "p", "t">>,
      <<"P", "y", "T", "o", "r", "c", "h">>,
      <<"T", "e", "n", "s", "o", "r", "F", "l", "o", "w">>,
      <<"R", "e", "s", "N", "e", "t">>, <<"I", "m", "a", "g", "e", "N", "e", "t">>,
      <<"W", "o", "r", "d", "N", "e", "t">>, <<"B", "i", "b", "T", "e", "X">>,
      <<"L", "a", "T", "e", "X">>, <<"D", "e", "e", "p", "L", "a", "b">>,
      <<"O", "p", "e", "n", "A", "I">>, <<"C", "h", "a", "t", "G", "P", "T">>,
      <<"G", "P", "T">> }


\* the characters U+2014 (em dash) and U+2013 (en dash), which a string
\* literal of this notation cannot hold: punctuation, not alphanumeric
EmDash == "U+2014"

EnDash == "U+2013"

\* the value None of an optional str argument (no sequence of characters)
None == <<"None">>

\* the value None of an optional set argument, and a set that was passed
NoStopwords == [given |-> FALSE, words |-> {}]

SomeStopwords(S) == [given |-> TRUE, words |-> S]

APA == <<"a", "p", "a">>

\* STYLES: the registry, one built-in style
STYLES ==
    [n \in {APA} |->
        [name |-> APA,
         stopwords |-> APA_STOPWORDS,
         min_length_capitalize |-> 4,
         capitalize_last_word |-> FALSE,
         hyphen_capitalize_all_parts |-> TRUE,
         subtitle_delimiters |-> {":", EmDash, EnDash, EmDash}]]

\* mutant: STYLES[name.lower()] without the default
GetStyleStrict(name) ==
    IF name = None \/ name = <<>>
    THEN STYLES[APA]
    ELSE IF Lower(name) \in DOMAIN STYLES THEN STYLES[Lower(name)]
         ELSE [name |-> <<"KeyError">>]

\* get_style(name)
get_style(name) ==
    IF name = None \/ name = <<>>
    THEN STYLES[APA]
    ELSE IF Lower(name) \in DOMAIN STYLES THEN STYLES[Lower(name)] ELSE STYLES[APA]

(***************************************************************************)
(* Word casing.                                                            *)
(***************************************************************************)
\* _split_tokens_preserve_space: re.split(r"(\s+)", text); the result
\* alternates non-space runs (empty at a border) and whitespace runs
RECURSIVE _split_tokens_preserve_space(_)
_split_tokens_preserve_space(text) ==
    IF \A i \in DOMAIN text : ~IsSpaceChar(text[i]) THEN <<text>>
    ELSE LET n == Len(text)
             i == CHOOSE k \in 1..n :
                     IsSpaceChar(text[k]) /\ \A m \in 1..(k - 1) : ~IsSpaceChar(text[m])
             j == CHOOSE k \in i..n :
                     /\ \A m \in i..k : IsSpaceChar(text[m])
                     /\ (k = n \/ ~IsSpaceChar(text[k + 1]))
         IN  <<SubSeq(text, 1, i - 1), SubSeq(text, i, j)>>
                 \o _split_tokens_preserve_space(SubSeq(text, j + 1, n))

\* mutant: an upper-case letter directly followed by a lower-case one
HasCapitalBeforeLower(word) ==
    /\ Len(word) >= 2
    /\ \E i \in 2..Len(word) : word[i] \in LowerSet /\ word[i - 1] \in UpperSet

\* _has_internal_capitals: a lower-case letter directly followed by an
\* upper-case one
_has_internal_capitals(word) ==
    /\ Len(word) >= 2
    /\ \E i \in 2..Len(word) : word[i] \in UpperSet /\ word[i - 1] \in LowerSet

\* mutant: the lookup compares the word as written with the lowered entry
KnownCaseSensitive(word) ==
    IF \E known \in KNOWN_MIXED_CASE : Lower(known) = word
    THEN CHOOSE known \in KNOWN_MIXED_CASE : Lower(known) = word
    ELSE None

\* _get_known_mixed_case: the canonical spelling, or None
_get_known_mixed_case(word) ==
    IF \E known \in KNOWN_MIXED_CASE : Lower(known) = Lower(word)
    THEN CHOOSE known \in KNOWN_MIXED_CASE : Lower(known) = Lower(word)
    ELSE None

\* mutant: the stopword test forgets to lower-case the word
IsMajorCaseSensitive(force, word, stopwords, style) ==
    \/ force
    \/ Len(CleanAlnum(word)) >= style.min_length_capitalize
    \/ word \notin stopwords

\* mutant: a word that begins with a stopword counts as a stopword
IsMajorPartial(force, word, stopwords, style) ==
    \/ force
    \/ Len(CleanAlnum(word)) >= style.min_length_capitalize
    \/ ~\E s \in stopwords :
           Len(s) <= Len(word) /\ SubSeq(Lower(word), 1, Len(s)) = s

\* the three-line test `major = force; major = major or len(clean) >=
\* style.min_length_capitalize; major = major or lower not in stopwords`
IsMajor(force, word, stopwords, style) ==
    \/ force
    \/ Len(CleanAlnum(word)) >= style.min_length_capitalize
    \/ Lower(word) \notin stopwords

\* one part of a hyphenated core (the loop body of _titlecase_hyphenated)
HyphenPart(part, i, force_capitalize, stopwords, style) ==
    LET lower_part == Lower(part)
        known_form == _get_known_mixed_case(part)
        first_major == IsMajor(force_capitalize, part, stopwords, style)
        rest_major ==
            IsMajor(style.hyphen_capitalize_all_parts, part, stopwords, style)
    IN  IF known_form # None THEN known_form
        ELSE IF IsAcronym(part) THEN part
        ELSE IF _has_internal_capitals(part) THEN part
        ELSE IF i = 0
             THEN (IF first_major THEN Capitalize(part) ELSE lower_part)
        ELSE IF lower_part \in _LOWERCASE_PREFIXES /\ ~force_capitalize
             THEN lower_part
        ELSE IF rest_major THEN Capitalize(part) ELSE lower_part

\* _titlecase_hyphenated
_titlecase_hyphenated(core, force_capitalize, stopwords, style) ==
    LET parts == SplitOn(core, "-")
        cased_parts ==
            [k \in DOMAIN parts |->
                HyphenPart(parts[k], k - 1, force_capitalize, stopwords, style)]
    IN  Join(cased_parts, <<"-">>)

\* mutant: a part is cased as a plain word unless it is a known term
SlashPartPlain(sp, j, is_major, force_capitalize) ==
    LET sp_known == _get_known_mixed_case(sp)
    IN  IF sp_known # None THEN sp_known
        ELSE IF is_major \/ (j = 0 /\ force_capitalize) THEN Capitalize(sp)
        ELSE Lower(sp)

\* one part of a slash-separated core (the loop body in _titlecase_word)
SlashPart(sp, j, is_major, force_capitalize) ==
    LET sp_known == _get_known_mixed_case(sp)
    IN  IF sp_known # None THEN sp_known
        ELSE IF IsAcronym(sp) THEN sp
        ELSE IF _has_internal_capitals(sp) THEN sp
        ELSE IF is_major \/ (j = 0 /\ force_capitalize) THEN Capitalize(sp)
        ELSE Lower(sp)

\* mutant: the trailing punctuation group is lost
WordGroupsNoSuffix(word) ==
    LET alnum == {i \in DOMAIN word : IsAlnum(word[i])}
        first == CHOOSE i \in alnum : \A k \in alnum : i <= k
        last  == CHOOSE i \in alnum : \A k \in alnum : k <= i
    IN  IF alnum = {}
        THEN [prefix |-> word, core |-> <<>>, suffix |-> <<>>]
        ELSE [prefix |-> SubSeq(word, 1, first - 1),
              core   |-> SubSeq(word, first, last),
              suffix |-> <<>>]

\* the groups of re.match(r"(^[^A-Za-z0-9]*)(.*?)([^A-Za-z0-9]*$)", word):
\* the core runs from the first to the last alphanumeric character
WordGroups(word) ==
    LET alnum == {i \in DOMAIN word : IsAlnum(word[i])}
        first == CHOOSE i \in alnum : \A k \in alnum : i <= k
        last  == CHOOSE i \in alnum : \A k \in alnum : k <= i
    IN  IF alnum = {}
        THEN [prefix |-> word, core |-> <<>>, suffix |-> <<>>]
        ELSE [prefix |-> SubSeq(word, 1, first - 1),
              core   |-> SubSeq(word, first, last),
              suffix |-> SubSeq(word, last + 1, Len(word))]

\* _titlecase_word once the core is known to be non-empty
TitlecaseCore(word, force_capitalize, stopwords, style) ==
    LET g == WordGroups(word)
        core == g.core
        known_form == _get_known_mixed_case(core)
        lower_core == Lower(core)
        is_major == IsMajor(force_capitalize, core, stopwords, style)
        slash_parts == SplitOn(core, "/")
        cased_slashes ==
            [k \in DOMAIN slash_parts |->
                SlashPart(slash_parts[k], k - 1, is_major, force_capitalize)]
        cased_core ==
            IF \E i \in DOMAIN core : core[i] = "-"
            THEN _titlecase_hyphenated(core, is_major, stopwords, style)
            ELSE IF _has_internal_capitals(core) THEN core
            ELSE IF IsAcronym(core) THEN core
            ELSE IF is_major THEN Capitalize(core)
            ELSE lower_core
    IN  IF known_form # None THEN g.prefix \o known_form \o g.suffix
        ELSE IF \E i \in DOMAIN core : core[i] = "/"
             THEN g.prefix \o Join(cased_slashes, <<"/">>) \o g.suffix
        ELSE g.prefix \o cased_core \o g.suffix

\* mutant: a word without a core is returned as the empty core
TitlecaseWordEmptyCore(word, force_capitalize, stopwords, style) ==
    IF word = <<>> THEN word
    ELSE IF WordGroups(word).core = <<>> THEN <<>>
    ELSE TitlecaseCore(word, force_capitalize, stopwords, style)

\* _titlecase_word: the early returns, then the casing of the core
_titlecase_word(word, force_capitalize, stopwords, style) ==
    IF word = <<>> THEN word
    ELSE IF WordGroups(word).core = <<>> THEN word
    ELSE TitlecaseCore(word, force_capitalize, stopwords, style)

(***************************************************************************)
(* suggest_title_case.                                                     *)
(***************************************************************************)
\* the end of the match of \{.*?\} that starts at i, or 0: the first "}"
\* after i, unless a line break stands before it ("." matches no "\n")
BraceClose(title, i) ==
    LET ends == {j \in (i + 1)..Len(title) :
                    /\ title[j] = "}"
                    /\ \A k \in (i + 1)..(j - 1) : title[k] \notin {"}", "\n"}}
    IN  IF title[i] = "{" /\ ends # {} THEN CHOOSE j \in ends : TRUE ELSE 0

\* the first match of re.finditer(r"\{.*?\}", title) that starts after
\* position `last` (the number of characters already consumed), or 0
BraceOpen(title, last) ==
    LET starts == {i \in (last + 1)..Len(title) : BraceClose(title, i) # 0}
    IN  IF starts = {} THEN 0 ELSE CHOOSE i \in starts : \A k \in starts : i <= k

\* parts: the ("text", ...) and ("braced", ...) segments, in order
RECURSIVE SegmentsFrom(_, _)
SegmentsFrom(title, last) ==
    LET start == BraceOpen(title, last)
        stop == BraceClose(title, start)
        text(a, b) == [kind |-> "text", segment |-> SubSeq(title, a, b)]
    IN  IF start = 0
        THEN (IF last < Len(title) THEN <<text(last + 1, Len(title))>> ELSE <<>>)
        ELSE (IF start - 1 > last THEN <<text(last + 1, start - 1)>> ELSE <<>>)
                 \o <<[kind |-> "braced", segment |-> SubSeq(title, start, stop)]>>
                 \o SegmentsFrom(title, stop)

\* mutant: the segment is taken from a capture group inside the braces
SegmentsUnbraced(title) ==
    LET parts == SegmentsFrom(title, 0)
    IN  [k \in DOMAIN parts |->
            IF parts[k].kind = "text" THEN parts[k]
            ELSE [kind |-> "braced",
                  segment |-> SubSeq(parts[k].segment, 2, Len(parts[k].segment) - 1)]]

Segments(title) == SegmentsFrom(title, 0)

\* concatenation of a sequence of sequences
RECURSIVE Flatten(_)
Flatten(ss) == IF ss = <<>> THEN <<>> ELSE Head(ss) \o Flatten(Tail(ss))

\* word_positions: the tokens of the text segments that hold a letter or digit
word_positions(parts) ==
    LET toks(p) == IF p.kind # "text" THEN <<>>
                   ELSE SelectSeq(_split_tokens_preserve_space(p.segment), HasAlnum)
    IN  Flatten([k \in DOMAIN parts |-> toks(parts[k])])

\* mutant: word indices counted from one
IsFirstOrLastFromOne(idx, total_words, style) ==
    \/ idx = 1
    \/ style.capitalize_last_word /\ idx = total_words

\* is_first_or_last
is_first_or_last(idx, total_words, style) ==
    \/ idx = 0
    \/ style.capitalize_last_word /\ idx = total_words - 1

\* mutant: startswith in place of endswith
StartsWithDelimiter(tok, style) ==
    tok # <<>> /\ tok[1] \in style.subtitle_delimiters

\* prev_token_nonspace.rstrip().endswith(tuple(style.subtitle_delimiters))
EndsWithDelimiter(tok, style) ==
    tok # <<>> /\ tok[Len(tok)] \in style.subtitle_delimiters

\* the items the rebuild loop walks through: a braced segment, or one token
\* of a text segment
RebuildItems(parts) ==
    LET items(p) ==
            IF p.kind = "braced" THEN <<p>>
            ELSE LET tokens == _split_tokens_preserve_space(p.segment)
                 IN  [k \in DOMAIN tokens |-> [kind |-> "tok", segment |-> tokens[k]]]
    IN  Flatten([k \in DOMAIN parts |-> items(parts[k])])

\* mutant: a protected span becomes the previous token of the loop
RECURSIVE RebuildSpanAsToken(_, _, _, _, _, _, _)
RebuildSpanAsToken(items, i, word_counter, prev_token_nonspace, total_words, stopwords, style) ==
    IF i > Len(items) THEN <<>>
    ELSE LET tok == items[i].segment
             force == \/ is_first_or_last(word_counter, total_words, style)
                      \/ EndsWithDelimiter(prev_token_nonspace, style)
         IN  IF items[i].kind = "braced"
             THEN tok \o RebuildSpanAsToken(items, i + 1, word_counter, tok,
                                            total_words, stopwords, style)
             ELSE IF IsSpace(tok) \/ tok = <<>>
             THEN tok \o RebuildSpanAsToken(items, i + 1, word_counter,
                                            prev_token_nonspace, total_words,
                                            stopwords, style)
             ELSE _titlecase_word(tok, force, stopwords, style)
                      \o RebuildSpanAsToken(items, i + 1, word_counter + 1, tok,
                                            total_words, stopwords, style)

\* the rebuild loop from item i on, with the loop's running word_counter and
\* prev_token_nonspace
RECURSIVE Rebuild(_, _, _, _, _, _, _)
Rebuild(items, i, word_counter, prev_token_nonspace, total_words, stopwords, style) ==
    IF i > Len(items) THEN <<>>
    ELSE LET tok == items[i].segment
             force == \/ is_first_or_last(word_counter, total_words, style)
                      \/ EndsWithDelimiter(prev_token_nonspace, style)
         IN  IF items[i].kind = "braced" \/ IsSpace(tok) \/ tok = <<>>
             THEN tok \o Rebuild(items, i + 1, word_counter, prev_token_nonspace,
                                 total_words, stopwords, style)
             ELSE _titlecase_word(tok, force, stopwords, style)
                      \o Rebuild(items, i + 1, word_counter + 1, tok,
                                 total_words, stopwords, style)

\* `stopwords or style.stopwords`: None and the empty set are falsy
StopwordsOr(stopwords, style) ==
    IF stopwords.given /\ stopwords.words # {}
    THEN stopwords.words ELSE style.stopwords

\* suggest_title_case(title, stopwords, style_name)
suggest_title_case(title, stopwords, style_name) ==
    LET style == get_style(style_name)
        words == StopwordsOr(stopwords, style)
        parts == Segments(title)
        total_words == Len(word_positions(parts))
    IN  Rebuild(RebuildItems(parts), 1, 0, <<>>, total_words, words, style)

(***************************************************************************)
(* Calls of the engine.                                                    *)
(***************************************************************************)
\* bounds of the model: the number of pieces a title is put together from
MaxPieces == 4

MaxBracePieces == 5

\* the pieces of the titles that exercise the casing rules: whitespace, a
\* short stopword in both cases, a subtitle delimiter, the compound
\* separators, a known mixed-case term in lower and upper case, a stopword
\* of four letters that is a lowercase prefix too
WordVocabulary ==
    { <<" ">>, <<"a">>, <<"A">>, <<":">>, <<"-">>, <<"/">>,
      <<"i", "o", "s">>, <<"I", "O", "S">>, <<"o", "v", "e", "r">> }

\* the pieces of the titles that exercise the segmentation: braces,
\* whitespace with a line break, a letter, a subtitle delimiter
BraceVocabulary == { <<" ">>, <<"\n">>, <<"a">>, <<"{">>, <<"}">>, <<":">> }

RECURSIVE TitlesUpTo(_, _)
TitlesUpTo(n, pieces) ==
    IF n <= 0 THEN {<<>>}
    ELSE LET shorter == TitlesUpTo(n - 1, pieces)
         IN  shorter \cup {t \o p : t \in shorter, p \in pieces}

Titles ==
    TitlesUpTo(MaxPieces, WordVocabulary)
        \cup TitlesUpTo(MaxBracePieces, BraceVocabulary)

ShortTitles == TitlesUpTo(MaxPieces - 1, WordVocabulary)

TinyTitles == TitlesUpTo(MaxPieces - 2, WordVocabulary)

\* the titles of the documented examples
BertTitle ==
    <<"a", " ", "s", "t", "u", "d", "y", " ", "o", "n", " ", "{", "B",
      "E", "R", "T", "}", " ", "a", "n", "d", " ", "r", "e", "s", "n",
      "e", "t", "5", "0", " ", "p", "e", "r", "f", "o", "r", "m", "a",
      "n", "c", "e">>

LearningTitle ==
    <<"a", " ", "s", "t", "u", "d", "y", " ", "o", "n", " ", "m", "a",
      "c", "h", "i", "n", "e", " ", "l", "e", "a", "r", "n", "i", "n",
      "g">>

FixtureTitles == {BertTitle, LearningTitle}

\* the custom stopword sets passed to the calls
CustomStopwords ==
    { SomeStopwords({<<"a">>, <<"o", "f">>, <<"t", "h", "e">>}),
      SomeStopwords({<<"i", "o", "s">>, <<"a", "-", "a">>, <<"a", "/", "a">>,
                     <<"a", "a">>}),
      SomeStopwords({}) }

\* the style names passed to the calls
StyleNames == {APA, <<"A", "P", "A">>, <<"m", "l", "a">>, <<>>}

\* the names given to get_style: None, and the strings of at most
\* MaxNameLen characters
MaxNameLen == 3

NameAlphabet == {"a", "p", "A", "P", "m"}

RECURSIVE NamesUpTo(_)
NamesUpTo(n) ==
    IF n = 0 THEN {<<>>}
    ELSE NamesUpTo(n - 1) \cup {s \o <<c>> : s \in NamesUpTo(n - 1), c \in NameAlphabet}

\* no style looked up yet
NoStyle == [name |-> None]

\* the module-level objects of titlecases.py as they are created on import;
\* STYLES["apa"].stopwords is the object APA_STOPWORDS itself
ModuleTables ==
    [STYLES |-> STYLES,
     APA_STOPWORDS |-> APA_STOPWORDS,
     KNOWN_MIXED_CASE |-> KNOWN_MIXED_CASE,
     _LOWERCASE_PREFIXES |-> _LOWERCASE_PREFIXES]

\* get_style(name), reading the registry as it stands when the call is made
GetStyleIn(registry, name) ==
    IF name = None \/ name = <<>>
    THEN registry[APA]
    ELSE IF Lower(name) \in DOMAIN registry THEN registry[Lower(name)] ELSE registry[APA]

\* suggest_title_case(title, stopwords, style_name), reading the registry as
\* it stands when the call is made
SuggestIn(registry, t, words, name) ==
    LET st == GetStyleIn(registry, name)
        parts == Segments(t)
        total_words == Len(word_positions(parts))
    IN  Rebuild(RebuildItems(parts), 1, 0, <<>>, total_words, StopwordsOr(words, st), st)

\* check_title_case: `stopwords or set(style.stopwords)`, a new set
CheckStopwords(registry, words, name) ==
    SomeStopwords(StopwordsOr(words, GetStyleIn(registry, name)))

\* mutant: the command line extends style.stopwords itself, without set()
ExtendStopwordsInPlace(tabs, name, extra) ==
    LET st == GetStyleIn(tabs.STYLES, name)
        extended == st.stopwords \cup {Lower(w) : w \in extra}
    IN  [stopwords |-> SomeStopwords(extended),
         name |-> st.name,
         tables |-> [tabs EXCEPT !.STYLES[st.name].stopwords = extended,
                                 !.APA_STOPWORDS = extended]]

\* the command line: style = get_style(args.title_style); stopwords =
\* set(style.stopwords); stopwords.update(lower-cased --extra-stopwords);
\* the set and style.name are passed on, the module objects are left alone
ExtendStopwords(tabs, name, extra) ==
    LET st == GetStyleIn(tabs.STYLES, name)
    IN  [stopwords |-> SomeStopwords(st.stopwords \cup {Lower(w) : w \in extra}),
         name |-> st.name,
         tables |-> tabs]

\* the titles, the --extra-stopwords lists and the stopword sets of a
\* sequence of calls
CallTitles ==
    { <<"a">>, <<"a", " ", "a", "b">>, <<"a", "b", ":", " ", "a">>,
      <<"A", "B", " ", "I", "O", "S">>, <<"a", "-", "a", "b">> }

ExtraStopwords == { {}, {<<"a", "b">>}, {<<"A", "B">>, <<"i", "o", "s">>} }

CallStopwords == CustomStopwords \cup {NoStopwords, SomeStopwords({<<"a", "b">>})}

(***************************************************************************)
(* check_title_case: the file, its entries and the rewriting of its lines. *)
(***************************************************************************)
\* the path names no file
Missing == <<"FileNotFoundError">>

\* the first index from i on that holds no whitespace, Len(s) + 1 if none
SkipSpace(s, i) ==
    LET rest == {j \in i..Len(s) : ~IsSpaceChar(s[j])}
    IN  IF rest = {} THEN Len(s) + 1 ELSE CHOOSE j \in rest : \A k \in rest : j <= k

\* \w
IsWordChar(c) == IsAlnum(c) \/ c = "_"

\* the first index from i on that holds no \w character, Len(s) + 1 if none
SkipWord(s, i) ==
    LET rest == {j \in i..Len(s) : ~IsWordChar(s[j])}
    IN  IF rest = {} THEN Len(s) + 1 ELSE CHOOSE j \in rest : \A k \in rest : j <= k

\* the first index from i on that holds c, 0 if none
FirstIndex(s, i, c) ==
    LET found == {j \in i..Len(s) : j >= 1 /\ s[j] = c}
    IN  IF found = {} THEN 0 ELSE CHOOSE j \in found : \A k \in found : j <= k

\* str.strip()
Strip(s) ==
    LET inked == {j \in DOMAIN s : ~IsSpaceChar(s[j])}
        first == CHOOSE j \in inked : \A k \in inked : j <= k
        last == CHOOSE j \in inked : \A k \in inked : k <= j
    IN  IF inked = {} THEN <<>> ELSE SubSeq(s, first, last)

\* re.match(r"@\w+\s*\{\s*([^,]+),", line): group(1).strip(), or None
HeaderId(line) ==
    LET w == SkipWord(line, 2)
        b == SkipSpace(line, w)
        c == FirstIndex(line, b + 1, ",")
    IN  IF /\ Len(line) >= 1 /\ line[1] = "@"
           /\ w > 2
           /\ b <= Len(line) /\ line[b] = "{"
           /\ c >= b + 2
        THEN Strip(SubSeq(line, b + 1, c - 1))
        ELSE None

\* the text matches \s*,?\s* up to the end of the line
TailOk(rest) ==
    /\ \A j \in DOMAIN rest : IsSpaceChar(rest[j]) \/ rest[j] = ","
    /\ Cardinality({j \in DOMAIN rest : rest[j] = ","}) <= 1

\* re.match(r"(\s*title\s*=\s*\{)(.*?)(\}\s*,?\s*$)", line, re.IGNORECASE):
\* whether the line matches, and the groups prefix and suffix
TitleMatch(line) ==
    LET t == SkipSpace(line, 1)
        eq == SkipSpace(line, t + 5)
        open == SkipSpace(line, eq + 1)
        closes == {e \in (open + 1)..Len(line) :
                      /\ line[e] = "}"
                      /\ \A j \in (open + 1)..(e - 1) : line[j] # "\n"
                      /\ TailOk(SubSeq(line, e + 1, Len(line)))}
        close == CHOOSE e \in closes : \A k \in closes : e <= k
    IN  IF /\ t + 4 <= Len(line)
           /\ Lower(SubSeq(line, t, t + 4)) = <<"t", "i", "t", "l", "e">>
           /\ eq <= Len(line) /\ line[eq] = "="
           /\ open <= Len(line) /\ line[open] = "{"
           /\ closes # {}
        THEN [matched |-> TRUE,
              prefix |-> SubSeq(line, 1, open),
              suffix |-> SubSeq(line, close, Len(line))]
        ELSE [matched |-> FALSE, prefix |-> <<>>, suffix |-> <<>>]

\* changed_map = {eid: new for eid, _, new in changed}: the last new title
\* of each entry id
ChangedMap(changed) ==
    [eid \in {changed[k][1] : k \in DOMAIN changed} |->
        LET ks == {k \in DOMAIN changed : changed[k][1] = eid}
        IN  changed[CHOOSE k \in ks : \A m \in ks : m <= k][3]]

\* the loop over the lines from line i on, with the loop's current_id: the
\* new lines and the number of replacements
RECURSIVE RewriteFrom(_, _, _, _)
RewriteFrom(lines, i, current_id, changed_map) ==
    IF i > Len(lines) THEN [lines |-> <<>>, replacements |-> 0]
    ELSE LET id == IF HeaderId(lines[i]) # None THEN HeaderId(lines[i]) ELSE current_id
             m_title == TitleMatch(lines[i])
             rest == RewriteFrom(lines, i + 1, id, changed_map)
         IN  IF id # None /\ id # <<>> /\ id \in DOMAIN changed_map /\ m_title.matched
             THEN [lines |-> <<m_title.prefix \o changed_map[id] \o m_title.suffix>>
                                 \o rest.lines,
                   replacements |-> rest.replacements + 1]
             ELSE [lines |-> <<lines[i]>> \o rest.lines,
                   replacements |-> rest.replacements]

\* the value of the field "title" in the body of an entry, None if the
\* entry has no such field: the text between the brace after title= and
\* the next closing brace
FieldTitle(body) ==
    LET starts == {p \in 1..(Len(body) - 4) :
                      /\ Lower(SubSeq(body, p, p + 4)) = <<"t", "i", "t", "l", "e">>
                      /\ p = 1 \/ ~IsWordChar(body[p - 1])
                      /\ LET eq == SkipSpace(body, p + 5)
                         IN  /\ eq <= Len(body) /\ body[eq] = "="
                             /\ SkipSpace(body, eq + 1) <= Len(body)
                             /\ body[SkipSpace(body, eq + 1)] = "{"}
        p0 == CHOOSE p \in starts : \A q \in starts : p <= q
        open == SkipSpace(body, SkipSpace(body, p0 + 5) + 1)
        close == FirstIndex(body, open + 1, "}")
    IN  IF starts = {} \/ close = 0 THEN None ELSE SubSeq(body, open + 1, close - 1)

\* bibtexparser.load on the text of the file: the entries in document
\* order, each with its ID and, if it has one, its title
RECURSIVE ParseFrom(_, _)
ParseFrom(text, i) ==
    LET at == FirstIndex(text, i, "@")
        open == FirstIndex(text, at, "{")
        comma == FirstIndex(text, open, ",")
        next == IF FirstIndex(text, comma, "@") = 0
                THEN Len(text) + 1 ELSE FirstIndex(text, comma, "@")
    IN  IF at = 0 \/ open = 0 \/ comma = 0 THEN <<>>
        ELSE <<[ID |-> Strip(SubSeq(text, open + 1, comma - 1)),
                title |-> FieldTitle(SubSeq(text, comma + 1, next - 1))]>>
                 \o ParseFrom(text, next)

ParseEntries(lines) == ParseFrom(Flatten(lines), 1)

\* " ".join(title.split())
Normalize(t) ==
    Join(SelectSeq(_split_tokens_preserve_space(t), LAMBDA tok : tok # <<>> /\ ~IsSpace(tok)),
         <<" ">>)

\* mutant: the comparison ignores the letter case
NeedsChangeFolded(t, suggested) == Lower(Normalize(t)) # Lower(Normalize(suggested))

\* normalized_orig != normalized_sugg
NeedsChange(t, suggested) == Normalize(t) # Normalize(suggested)

\* mutant: a path that names no file is opened as an empty file
LoadCreating(f) ==
    IF f = Missing
    THEN [found |-> TRUE, entries |-> <<>>]
    ELSE [found |-> TRUE, entries |-> ParseEntries(f)]

\* open(input_path) and bibtexparser.load, or FileNotFoundError
Load(f) ==
    IF f = Missing
    THEN [found |-> FALSE, entries |-> <<>>]
    ELSE [found |-> TRUE, entries |-> ParseEntries(f)]

\* the entries a file is written from: the header at the start of its line
\* or indented, one of two keys, and no title, a title on one line that
\* needs casing or needs none, or a title on two lines
MaxEntries == 2

EntryShapes ==
    [indented : BOOLEAN, key : {<<"k">>, <<"j">>},
     title : {"none", "lower", "cased", "two lines"}]

EntryLines(shape) ==
    <<(IF shape.indented THEN <<" ">> ELSE <<>>) \o <<"@", "a", "{">> \o shape.key
          \o <<",", "\n">>,
      <<"b", "o", "o", "k", "t", "i", "t", "l", "e", "=", "{", "a", "}", ",", "\n">>>>
    \o (CASE shape.title = "none" -> <<>>
          [] shape.title = "lower" ->
                << <<" ", "t", "i", "t", "l", "e", " ", "=", " ", "{", "a", "}", ",", "\n">> >>
          [] shape.title = "cased" ->
                << <<"T", "i", "t", "l", "e", "=", "{", "A", "}", "\n">> >>
          [] shape.title = "two lines" ->
                << <<"t", "i", "t", "l", "e", "=", "{", "a", "\n">>,
                   <<" ", "b", "}", ",", "\n">> >>)
    \o << <<"}", "\n">> >>

\* the entries of the files of the interactive runs
PromptedShapes ==
    { [indented |-> FALSE, key |-> <<"k">>, title |-> "lower"],
      [indented |-> FALSE, key |-> <<"j">>, title |-> "two lines"],
      [indented |-> FALSE, key |-> <<"k">>, title |-> "cased"] }

\* a file of the interactive runs whose second entry has an indented header
IndentedFiles ==
    { EntryLines([indented |-> FALSE, key |-> <<"k">>, title |-> "lower"])
          \o EntryLines([indented |-> TRUE, key |-> <<"j">>, title |-> "lower"]) }

RECURSIVE FilesUpTo(_, _)
FilesUpTo(n, shapes) ==
    IF n = 0 THEN {<<>>}
    ELSE FilesUpTo(n - 1, shapes)
             \cup {f \o EntryLines(shape) : f \in FilesUpTo(n - 1, shapes), shape \in shapes}

\* the answers at the prompts: input() returns a line, or raises EOFError
\* or KeyboardInterrupt
EndOfInput == <<"EOFError">>

ChoiceAnswers ==
    {<<"a">>, <<" ", "S", "k", "i", "p">>, <<"e">>, <<"q">>, <<"x">>, EndOfInput}

EditAnswers == {<<"B", " ", "b">>, <<" ">>, EndOfInput}

\* at most MaxRetries answers of a run are invalid choices
MaxRetries == 1

VARIABLES title, stopwords, style_name, suggestion, resuggestion, style, pc

\* the module-level objects of titlecases.py
VARIABLES tables

\* check_title_case: the file at input_path (its lines, or Missing) and the
\* file as it was found, the flags apply and interactive, bib_db.entries,
\* the index of the entry the loop is at, the list changed, the counters
\* issues and replacements, the messages given to log, the prompts
\* answered on the terminal and the number of times the file was written
VARIABLES file, source, apply, interactive, entries, position, changed, issues,
          replacements, log, prompts, writes

checkVars ==
    <<file, source, apply, interactive, entries, position, changed, issues,
      replacements, log, prompts, writes>>

\* no call of check_title_case is under way
CheckIdle ==
    /\ file = Missing
    /\ source = Missing
    /\ apply = FALSE
    /\ interactive = FALSE
    /\ entries = <<>>
    /\ position = 0
    /\ changed = <<>>
    /\ issues = 0
    /\ replacements = 0
    /\ log = <<>>
    /\ prompts = <<>>
    /\ writes = 0

\* a call of _titlecase_word alone: its arguments word and force_capitalize
\* (stopwords holds the set, style_name the style) and the value returned
VARIABLES word, force_capitalize, cased

wordVars == <<word, force_capitalize, cased>>

\* no call of _titlecase_word alone is under way
WordIdle ==
    /\ word = <<>>
    /\ force_capitalize = FALSE
    /\ cased = <<>>

vars ==
    <<title, stopwords, style_name, suggestion, resuggestion, style, pc, tables,
      checkVars, wordVars>>

\* a call with the default arguments on any title or documented example, or
\* a call with a custom stopword set or with another style name on a
\* shorter title
Init ==
    /\ \/ title \in Titles \cup FixtureTitles /\ stopwords = NoStopwords /\ style_name = APA
       \/ title \in ShortTitles /\ stopwords \in CustomStopwords /\ style_name = APA
       \/ title \in TinyTitles /\ stopwords = NoStopwords /\ style_name \in StyleNames
    /\ suggestion = <<>>
    /\ resuggestion = <<>>
    /\ style = NoStyle
    /\ pc = "start"
    /\ tables = ModuleTables
    /\ CheckIdle
    /\ WordIdle

\* suggested = suggest_title_case(title, stopwords, style_name)
Suggest ==
    /\ pc = "start"
    /\ suggestion' = suggest_title_case(title, stopwords, style_name)
    /\ pc' = "suggested"
    /\ UNCHANGED <<title, stopwords, style_name, resuggestion, style, tables, wordVars, checkVars>>

\* the suggestion is given to suggest_title_case again
Resuggest ==
    /\ pc = "suggested"
    /\ resuggestion' = suggest_title_case(suggestion, stopwords, style_name)
    /\ pc' = "resuggested"
    /\ UNCHANGED <<title, stopwords, style_name, suggestion, style, tables, wordVars, checkVars>>

Next == Suggest \/ Resuggest

Spec == Init /\ [][Next]_vars

\* a call of get_style alone
InitStyle ==
    /\ style_name \in NamesUpTo(MaxNameLen) \cup {None}
    /\ style = NoStyle
    /\ title = <<>>
    /\ stopwords = NoStopwords
    /\ suggestion = <<>>
    /\ resuggestion = <<>>
    /\ pc = "start"
    /\ tables = ModuleTables
    /\ CheckIdle
    /\ WordIdle

\* style = get_style(style_name)
GetStyle ==
    /\ pc = "start"
    /\ style' = get_style(style_name)
    /\ pc' = "looked up"
    /\ UNCHANGED <<title, stopwords, style_name, suggestion, resuggestion, tables, wordVars, checkVars>>

NextStyle == GetStyle

SpecStyle == InitStyle /\ [][NextStyle]_vars

\* a sequence of calls of get_style, suggest_title_case, check_title_case
\* and the command line, in any order
InitCalls ==
    /\ title = <<>>
    /\ stopwords = NoStopwords
    /\ style_name = APA
    /\ suggestion = <<>>
    /\ resuggestion = <<>>
    /\ style = NoStyle
    /\ pc = "idle"
    /\ tables = ModuleTables
    /\ CheckIdle
    /\ WordIdle

\* get_style(name)
CallGetStyle ==
    \E name \in StyleNames \cup {None} :
        /\ style' = GetStyleIn(tables.STYLES, name)
        /\ style_name' = name
        /\ pc' = "looked up"
        /\ UNCHANGED <<title, stopwords, suggestion, resuggestion, tables, wordVars, checkVars>>

\* suggest_title_case(t, words, name)
CallSuggest ==
    \E t \in CallTitles, words \in CallStopwords, name \in StyleNames :
        /\ title' = t
        /\ stopwords' = words
        /\ style_name' = name
        /\ suggestion' = SuggestIn(tables.STYLES, t, words, name)
        /\ pc' = "suggested"
        /\ UNCHANGED <<resuggestion, style, tables, wordVars, checkVars>>

\* check_title_case(input_path, words, name) on a file with one entry of
\* title t: the suggestion made for the entry
CallCheck ==
    \E t \in CallTitles, words \in CallStopwords, name \in StyleNames :
        /\ title' = t
        /\ stopwords' = words
        /\ style_name' = name
        /\ suggestion' = SuggestIn(tables.STYLES, t,
                                   CheckStopwords(tables.STYLES, words, name), name)
        /\ pc' = "checked"
        /\ UNCHANGED <<resuggestion, style, tables, wordVars, checkVars>>

\* the command line with --title-style name and --extra-stopwords extra on
\* a file with one entry of title t
CallCommandLine ==
    \E t \in CallTitles, extra \in ExtraStopwords, name \in StyleNames :
        LET args == ExtendStopwords(tables, name, extra)
        IN  /\ tables' = args.tables
            /\ title' = t
            /\ stopwords' = args.stopwords
            /\ style_name' = args.name
            /\ suggestion' = SuggestIn(tables'.STYLES, t,
                                       CheckStopwords(tables'.STYLES, args.stopwords,
                                                      args.name), args.name)
            /\ pc' = "checked"
            /\ UNCHANGED <<resuggestion, style, checkVars, wordVars>>

NextCalls == CallGetStyle \/ CallSuggest \/ CallCheck \/ CallCommandLine

SpecCalls == InitCalls /\ [][NextCalls]_vars

\* a call of check_title_case on a file of at most MaxEntries entries or on
\* a path that names no file, in each mode
InitCheck ==
    /\ \/ interactive = FALSE /\ file \in FilesUpTo(MaxEntries, EntryShapes) \cup {Missing}
       \/ /\ interactive = TRUE
          /\ file \in FilesUpTo(MaxEntries, PromptedShapes) \cup IndentedFiles \cup {Missing}
    /\ source = file
    /\ apply \in BOOLEAN
    /\ stopwords = NoStopwords
    /\ style_name = APA
    /\ title = <<>>
    /\ suggestion = <<>>
    /\ resuggestion = <<>>
    /\ style = NoStyle
    /\ tables = ModuleTables
    /\ entries = <<>>
    /\ position = 0
    /\ changed = <<>>
    /\ issues = 0
    /\ replacements = 0
    /\ log = <<>>
    /\ prompts = <<>>
    /\ writes = 0
    /\ WordIdle
    /\ pc = "start"

\* the file is opened and parsed; a missing file is logged and the call
\* returns the empty list
LoadFile ==
    /\ pc = "start"
    /\ LET loaded == Load(file)
       IN  IF ~loaded.found
           THEN /\ log' = Append(log, "error: file not found")
                /\ pc' = "returned"
                /\ UNCHANGED <<entries, position>>
           ELSE /\ entries' = loaded.entries
                /\ position' = 1
                /\ log' = IF ~apply /\ ~interactive THEN Append(log, "heading") ELSE log
                /\ pc' = "loop"
    /\ UNCHANGED <<title, stopwords, style_name, suggestion, resuggestion, style, tables, wordVars,
                   file, source, apply, interactive, changed, issues, replacements,
                   prompts, writes>>

\* one pass of the loop over the entries, up to the prompt in interactive
\* mode
ExamineEntry ==
    /\ pc = "loop"
    /\ position <= Len(entries)
    /\ LET entry == entries[position]
           suggested == suggest_title_case(entry.title,
                            CheckStopwords(tables.STYLES, stopwords, style_name),
                            style_name)
       IN  IF entry.title = None \/ entry.title = <<>>
           THEN /\ position' = position + 1
                /\ UNCHANGED <<title, suggestion, entries, changed, issues, log, pc>>
           ELSE IF ~NeedsChange(entry.title, suggested)
           THEN /\ position' = position + 1
                /\ title' = entry.title
                /\ suggestion' = suggested
                /\ UNCHANGED <<entries, changed, issues, log, pc>>
           ELSE /\ title' = entry.title
                /\ suggestion' = suggested
                /\ issues' = issues + 1
                /\ IF interactive
                   THEN /\ log' = Append(log, "suggestion shown")
                        /\ pc' = "choice"
                        /\ UNCHANGED <<entries, changed, position>>
                   ELSE /\ IF apply
                           THEN /\ entries' = [entries EXCEPT ![position].title = suggested]
                                /\ log' = log
                           ELSE /\ log' = Append(log, "issue")
                                /\ entries' = entries
                        /\ changed' = Append(changed, <<entry.ID, entry.title, suggested>>)
                        /\ position' = position + 1
                        /\ pc' = pc
    /\ UNCHANGED <<stopwords, style_name, resuggestion, style, tables, wordVars, file, source,
                   apply, interactive, replacements, prompts, writes>>

\* the answer at "[a]ccept / [s]kip / [e]dit / [q]uit"
AnswerChoice ==
    /\ pc = "choice"
    /\ \E answer \in ChoiceAnswers :
        LET choice == IF answer = EndOfInput THEN <<"q">> ELSE Lower(Strip(answer))
            entry_id == entries[position].ID
        IN  /\ prompts' = Append(prompts, [entry |-> position, question |-> "choice",
                                            answer |-> answer])
            /\ IF choice \in {<<"a">>, <<"a", "c", "c", "e", "p", "t">>}
               THEN /\ entries' = [entries EXCEPT ![position].title = suggestion]
                    /\ changed' = Append(changed, <<entry_id, title, suggestion>>)
                    /\ log' = Append(log, "accepted")
                    /\ position' = position + 1
                    /\ pc' = "loop"
               ELSE IF choice \in {<<"s">>, <<"s", "k", "i", "p">>}
               THEN /\ log' = Append(log, "skipped")
                    /\ position' = position + 1
                    /\ pc' = "loop"
                    /\ UNCHANGED <<entries, changed>>
               ELSE IF choice \in {<<"e">>, <<"e", "d", "i", "t">>}
               THEN /\ pc' = "edit"
                    /\ UNCHANGED <<entries, changed, log, position>>
               ELSE IF choice \in {<<"q">>, <<"q", "u", "i", "t">>}
               THEN /\ log' = Append(log, "quit")
                    /\ pc' = "finish"
                    /\ UNCHANGED <<entries, changed, position>>
               ELSE /\ Cardinality({k \in DOMAIN log : log[k] = "invalid choice"})
                           < MaxRetries
                    /\ log' = Append(log, "invalid choice")
                    /\ pc' = "choice"
                    /\ UNCHANGED <<entries, changed, position>>
    /\ UNCHANGED <<title, stopwords, style_name, suggestion, resuggestion, style, tables, wordVars,
                   file, source, apply, interactive, issues, replacements, writes>>

\* the answer at "Enter new title"
AnswerEdit ==
    /\ pc = "edit"
    /\ \E answer \in EditAnswers :
        LET manual == Strip(answer)
        IN  /\ prompts' = Append(prompts, [entry |-> position, question |-> "edit",
                                            answer |-> answer])
            /\ IF answer = EndOfInput
               THEN /\ log' = Append(log, "skipped")
                    /\ UNCHANGED <<entries, changed>>
               ELSE IF manual # <<>>
               THEN /\ entries' = [entries EXCEPT ![position].title = manual]
                    /\ changed' = Append(changed, <<entries[position].ID, title, manual>>)
                    /\ log' = Append(log, "custom title saved")
               ELSE /\ log' = Append(log, "empty input, skipped")
                    /\ UNCHANGED <<entries, changed>>
            /\ position' = position + 1
            /\ pc' = "loop"
    /\ UNCHANGED <<title, stopwords, style_name, suggestion, resuggestion, style, tables, wordVars,
                   file, source, apply, interactive, issues, replacements, writes>>

\* Path(input_path).read_text().splitlines(keepends=True)
ReadLines(f) == IF f = Missing THEN <<>> ELSE f

\* after the loop: the file is rewritten, or the report is closed; the call
\* returns changed
Finish ==
    /\ \/ pc = "loop" /\ position > Len(entries)
       \/ pc = "finish"
    /\ IF apply \/ (interactive /\ changed # <<>>)
       THEN LET rewritten == RewriteFrom(ReadLines(file), 1, None, ChangedMap(changed))
            IN  /\ file' = rewritten.lines
                /\ replacements' = rewritten.replacements
                /\ writes' = writes + 1
                /\ log' = Append(log, IF rewritten.replacements = 0
                                      THEN "no changes applied" ELSE "changes applied")
       ELSE /\ log' = IF interactive THEN log
                      ELSE Append(log, IF issues = 0 THEN "all titles fine"
                                                    ELSE "titles found")
            /\ UNCHANGED <<file, replacements, writes>>
    /\ pc' = "returned"
    /\ UNCHANGED <<title, stopwords, style_name, suggestion, resuggestion, style, tables, wordVars,
                   source, apply, interactive, entries, position, changed, issues,
                   prompts>>

NextCheck == LoadFile \/ ExamineEntry \/ AnswerChoice \/ AnswerEdit \/ Finish

SpecCheck == InitCheck /\ [][NextCheck]_vars

(***************************************************************************)
(* Calls on titles with compound words and with protected spans.           *)
(***************************************************************************)
\* the parts compound words are put together from: a short stopword, a
\* stopword that is a lowercase prefix, a lowercase prefix in lower and in
\* upper case, a known mixed-case term
PartWords ==
    { <<"a">>, <<"o", "v", "e", "r">>, <<"r", "e">>, <<"R", "E">>, <<"i", "o", "s">> }

\* at most MaxParts parts in a compound word
MaxParts == 3

RECURSIVE CompoundsOf(_, _)
CompoundsOf(n, sep) ==
    IF n <= 1 THEN PartWords
    ELSE CompoundsOf(n - 1, sep)
             \cup {c \o <<sep>> \o p : c \in CompoundsOf(n - 1, sep), p \in PartWords}

CompoundWords == CompoundsOf(MaxParts, "-") \cup CompoundsOf(MaxParts, "/")

\* a compound word alone, after a word, and after a word with a colon
CompoundTitles ==
    CompoundWords
        \cup {lead \o <<" ">> \o w : lead \in {<<"a">>, <<"a", ":">>}, w \in CompoundWords}

\* the pieces of the titles with protected spans: whitespace, a short
\* stopword, a token that ends in a subtitle delimiter, a punctuation-only
\* token, a protected span, a protected span whose text ends in a delimiter
SpanVocabulary ==
    { <<" ">>, <<"a">>, <<"x", ":">>, <<"-">>, <<"{", "p", "}">>,
      <<"{", "x", ":", "}">> }

MaxSpanPieces == 5

SpanTitles == TitlesUpTo(MaxSpanPieces, SpanVocabulary)

PositionTitles == CompoundTitles \cup SpanTitles

\* a call with the default arguments on one of these titles
InitPositions ==
    /\ title \in PositionTitles
    /\ stopwords = NoStopwords
    /\ style_name = APA
    /\ suggestion = <<>>
    /\ resuggestion = <<>>
    /\ style = NoStyle
    /\ pc = "start"
    /\ tables = ModuleTables
    /\ CheckIdle
    /\ WordIdle

NextPositions == Suggest

SpecPositions == InitPositions /\ [][NextPositions]_vars

(***************************************************************************)
(* Calls of _titlecase_word alone.                                         *)
(***************************************************************************)
\* the characters of the words: a letter in both cases that is a stopword
\* by itself, a letter that makes a second stopword with it, a digit, and
\* punctuation that opens, closes or stands inside a word
WordAlphabet == {"a", "A", "n", "1", ".", "("}

MaxWordLen == 4

RECURSIVE WordsUpTo(_)
WordsUpTo(n) ==
    IF n = 0 THEN {<<>>}
    ELSE WordsUpTo(n - 1) \cup {w \o <<c>> : w \in WordsUpTo(n - 1), c \in WordAlphabet}

\* the stopword sets passed to _titlecase_word: the style's, and a set with
\* a stopword of four letters
WordStopwords ==
    { SomeStopwords(APA_STOPWORDS),
      SomeStopwords({<<"a", "n">>, <<"n", "a", "n", "a">>}) }

\* _titlecase_word(word, force_capitalize, stopwords, style) on any word
InitWord ==
    /\ word \in WordsUpTo(MaxWordLen)
    /\ force_capitalize \in BOOLEAN
    /\ stopwords \in WordStopwords
    /\ style_name = APA
    /\ cased = <<>>
    /\ title = <<>>
    /\ suggestion = <<>>
    /\ resuggestion = <<>>
    /\ style = NoStyle
    /\ pc = "start"
    /\ tables = ModuleTables
    /\ CheckIdle

\* new_tok = _titlecase_word(tok, force, stopwords, style)
CaseWord ==
    /\ pc = "start"
    /\ cased' = _titlecase_word(word, force_capitalize, stopwords.words,
                                get_style(style_name))
    /\ pc' = "cased"
    /\ UNCHANGED <<title, stopwords, style_name, suggestion, resuggestion, style, tables,
                   checkVars, word, force_capitalize>>

NextWord == CaseWord

SpecWord == InitWord /\ [][NextWord]_vars

(***************************************************************************)
(* Calls with a style that capitalises the last word.                      *)
(***************************************************************************)
\* STYLES after a caller has added a style to it: TitleCaseStyle(name="last",
\* stopwords=APA_STOPWORDS, capitalize_last_word=True, subtitle_delimiters=
\* the delimiters of "apa"), the other fields at their defaults
LastStyle == <<"l", "a", "s", "t">>

RegisteredStyles ==
    [n \in {APA, LastStyle} |->
        IF n = APA THEN STYLES[APA]
        ELSE [name |-> LastStyle,
              stopwords |-> APA_STOPWORDS,
              min_length_capitalize |-> 4,
              capitalize_last_word |-> TRUE,
              hyphen_capitalize_all_parts |-> TRUE,
              subtitle_delimiters |-> STYLES[APA].subtitle_delimiters]]

RegisteredTables == [ModuleTables EXCEPT !.STYLES = RegisteredStyles]

\* the pieces of the titles of these calls: whitespace, a short stopword, a
\* word that is no stopword, a punctuation-only token
LastVocabulary == { <<" ">>, <<"a">>, <<"x">>, <<"-">> }

MaxLastPieces == 5

\* a call with either style on a title of at most MaxLastPieces pieces
InitLast ==
    /\ title \in TitlesUpTo(MaxLastPieces, LastVocabulary)
    /\ stopwords = NoStopwords
    /\ style_name \in {APA, LastStyle}
    /\ suggestion = <<>>
    /\ resuggestion = <<>>
    /\ style = NoStyle
    /\ pc = "start"
    /\ tables = RegisteredTables
    /\ CheckIdle
    /\ WordIdle

\* suggested = suggest_title_case(title, stopwords, style_name), with the
\* registry as it stands
SuggestRegistered ==
    /\ pc = "start"
    /\ suggestion' = SuggestIn(tables.STYLES, title, stopwords, style_name)
    /\ pc' = "suggested"
    /\ UNCHANGED <<title, stopwords, style_name, resuggestion, style, tables, wordVars,
                   checkVars>>

NextLast == SuggestRegistered

SpecLast == InitLast /\ [][NextLast]_vars

(***************************************************************************)
(* Properties of suggest_title_case.                                       *)
(***************************************************************************)
\* the title as the rebuild loop walks it: braced segments, whitespace runs
\* and tokens; item k of the title stands at the same offset in the output
Items(t) == RebuildItems(Segments(t))

Offset(items, k) == Len(Flatten([j \in 1..(k - 1) |-> items[j].segment]))

OutItem(out, items, k) ==
    SubSeq(out, Offset(items, k) + 1, Offset(items, k) + Len(items[k].segment))

\* C1: idempotence -- giving the suggestion to suggest_title_case again,
\* with the same stopwords and style name, returns the suggestion unchanged
Idempotent == pc = "resuggested" => resuggestion = suggestion

\* a title that the first call re-cased and the second call left alone
IdempotentWitness ==
    pc = "resuggested" /\ suggestion # title /\ resuggestion = suggestion

\* the number of braces open after the first k characters
Depth(t, k) ==
    Cardinality({m \in 1..k : t[m] = "{"}) - Cardinality({m \in 1..k : t[m] = "}"})

\* the "{" at i and the "}" at j are a matched pair
MatchedPair(t, i, j) ==
    /\ i < j /\ t[i] = "{" /\ t[j] = "}"
    /\ Depth(t, j) = Depth(t, i - 1)
    /\ \A m \in i..(j - 1) : Depth(t, m) > Depth(t, i - 1)

\* C2: protected-span invariance -- every substring enclosed in a matched
\* pair of braces, nested pairs and line breaks included, stands unchanged
\* at its place in the suggestion
ProtectedSpansUnchanged ==
    pc = "suggested" =>
        /\ Len(suggestion) = Len(title)
        /\ \A i, j \in DOMAIN title :
               MatchedPair(title, i, j) =>
                   SubSeq(suggestion, i, j) = SubSeq(title, i, j)

\* C3: case-only change -- the suggestion has the length of the title, and
\* at every position the same character up to letter case; whitespace is
\* the same at the same place
CaseOnlyChange ==
    pc = "suggested" =>
        /\ Len(suggestion) = Len(title)
        /\ \A i \in DOMAIN title :
               /\ CharLower(suggestion[i]) = CharLower(title[i])
               /\ IsSpaceChar(title[i]) => suggestion[i] = title[i]

\* a title of several tokens with punctuation that was re-cased
CaseOnlyChangeWitness ==
    /\ pc = "suggested"
    /\ suggestion # title
    /\ \E i \in DOMAIN title : IsSpaceChar(title[i])
    /\ \E i \in DOMAIN title : ~IsSpaceChar(title[i]) /\ ~IsAlnum(title[i])

\* the style and the stopword set in force for the call
ActiveStyle == get_style(style_name)

ActiveStopwords == StopwordsOr(stopwords, ActiveStyle)

\* item k is a word: a token of a text segment that holds a letter or digit
IsWord(items, k) == items[k].kind = "tok" /\ HasAlnum(items[k].segment)

\* prefix, core and suffix of the token at item k
Groups(items, k) == WordGroups(items[k].segment)

\* the token at item k with its core replaced
WithCore(items, k, core) ==
    Groups(items, k).prefix \o core \o Groups(items, k).suffix

\* the core is case-insensitively an entry of the known mixed-case table
IsKnown(core) == \E known \in KNOWN_MIXED_CASE : Lower(known) = Lower(core)

\* the hyphen- and slash-separated parts of a core
CompoundParts(core) ==
    LET slashed == SplitOn(core, "/")
    IN  Flatten([k \in DOMAIN slashed |-> SplitOn(slashed[k], "-")])

\* fully upper-case with length >= 2
UpperCased(s) == IsUpper(s) /\ Len(s) >= 2

\* a plain core: no hyphen or slash, not a known term, not an acronym, no
\* lower-to-upper transition
PlainCore(core) ==
    /\ core # <<>>
    /\ \A i \in DOMAIN core : core[i] \notin {"-", "/"}
    /\ ~IsKnown(core)
    /\ ~UpperCased(core)
    /\ \A i \in 2..Len(core) : ~(core[i] \in UpperSet /\ core[i - 1] \in LowerSet)

\* the nearest token before item k (whitespace runs and braced segments
\* skipped), 0 if there is none
PrevToken(items, k) ==
    LET before == {j \in 1..(k - 1) :
                      /\ items[j].kind = "tok"
                      /\ items[j].segment # <<>>
                      /\ ~IsSpace(items[j].segment)}
    IN  IF before = {} THEN 0 ELSE CHOOSE j \in before : \A m \in before : m <= j

\* item k is the first word of the title
FirstWord(items, k) == IsWord(items, k) /\ \A j \in 1..(k - 1) : ~IsWord(items, j)

\* item k is the last word of the title
LastWord(items, k) ==
    IsWord(items, k) /\ \A j \in (k + 1)..Len(items) : ~IsWord(items, j)

\* item k follows a token that ends in a subtitle delimiter
AfterDelimiter(items, k) ==
    LET j == PrevToken(items, k)
    IN  /\ j # 0
        /\ items[j].segment[Len(items[j].segment)] \in ActiveStyle.subtitle_delimiters

\* the word at item k stands at a forced position
Forced(items, k) ==
    \/ FirstWord(items, k)
    \/ ActiveStyle.capitalize_last_word /\ LastWord(items, k)
    \/ AfterDelimiter(items, k)

\* C4 as claimed: every word whose core is fully upper-case with length >= 2
\* is emitted unchanged, at every position and for every stopword set
AcronymUnchanged ==
    pc = "suggested" =>
        LET items == Items(title)
        IN  \A k \in DOMAIN items :
                IsWord(items, k) /\ UpperCased(Groups(items, k).core)
                    => OutItem(suggestion, items, k) = items[k].segment

\* every part of the core is an acronym that the known table does not hold
PureAcronym(core) ==
    \A i \in DOMAIN CompoundParts(core) :
        UpperCased(CompoundParts(core)[i]) /\ ~IsKnown(CompoundParts(core)[i])

\* C4 as amended: a word whose core -- or, in a hyphen or slash compound,
\* each part of whose core -- is fully upper-case with length >= 2 and is
\* not an entry of the known mixed-case table is emitted unchanged, at every
\* position and for every stopword set
AcronymPreserved ==
    pc = "suggested" =>
        LET items == Items(title)
        IN  \A k \in DOMAIN items :
                IsWord(items, k) /\ PureAcronym(Groups(items, k).core)
                    => OutItem(suggestion, items, k) = items[k].segment

\* an acronym that is neither the first word nor after a delimiter was
\* emitted unchanged
AcronymWitness ==
    /\ pc = "suggested"
    /\ LET items == Items(title)
       IN  \E k \in DOMAIN items :
               /\ IsWord(items, k) /\ PureAcronym(Groups(items, k).core)
               /\ ~Forced(items, k)
               /\ OutItem(suggestion, items, k) = items[k].segment

\* C5 as claimed: a plain word whose lowercase form is a stopword, at a
\* position that is not forced, is emitted in lowercase
StopwordLowered ==
    pc = "suggested" =>
        LET items == Items(title)
        IN  \A k \in DOMAIN items :
                LET core == Groups(items, k).core
                IN  /\ IsWord(items, k) /\ PlainCore(core)
                    /\ Lower(core) \in ActiveStopwords
                    /\ ~Forced(items, k)
                    => OutItem(suggestion, items, k) = WithCore(items, k, Lower(core))

\* C5 as amended: a plain word whose lowercase form is a stopword with
\* fewer than min_length_capitalize letters and digits, at a position that
\* is not forced, is emitted in lowercase
ShortStopwordLowered ==
    pc = "suggested" =>
        LET items == Items(title)
        IN  \A k \in DOMAIN items :
                LET core == Groups(items, k).core
                IN  /\ IsWord(items, k) /\ PlainCore(core)
                    /\ Lower(core) \in ActiveStopwords
                    /\ Len(CleanAlnum(core)) < ActiveStyle.min_length_capitalize
                    /\ ~Forced(items, k)
                    => OutItem(suggestion, items, k) = WithCore(items, k, Lower(core))

\* a capitalised short stopword after the first word was lowered
ShortStopwordWitness ==
    /\ pc = "suggested"
    /\ LET items == Items(title)
       IN  \E k \in DOMAIN items :
               LET core == Groups(items, k).core
               IN  /\ IsWord(items, k) /\ PlainCore(core)
                   /\ Lower(core) \in ActiveStopwords
                   /\ Len(CleanAlnum(core)) < ActiveStyle.min_length_capitalize
                   /\ ~Forced(items, k)
                   /\ core # Lower(core)
                   /\ OutItem(suggestion, items, k) = WithCore(items, k, Lower(core))

\* item k is a word that follows, after whitespace, a token ending in a
\* subtitle delimiter
StartsSubtitle(items, k) ==
    /\ k > 2 /\ IsWord(items, k)
    /\ IsSpace(items[k - 1].segment) /\ items[k - 1].kind = "tok"
    /\ PrevToken(items, k) = k - 2
    /\ AfterDelimiter(items, k)

\* C6: a plain word that immediately follows a token ending in a subtitle
\* delimiter is capitalised, also when it is a short stopword
SubtitleForced ==
    pc = "suggested" =>
        LET items == Items(title)
        IN  \A k \in DOMAIN items :
                StartsSubtitle(items, k) /\ PlainCore(Groups(items, k).core)
                    => OutItem(suggestion, items, k)
                           = WithCore(items, k, Capitalize(Groups(items, k).core))

\* a short stopword after "word:" was capitalised
SubtitleWitness ==
    /\ pc = "suggested"
    /\ LET items == Items(title)
       IN  \E k \in DOMAIN items :
               LET core == Groups(items, k).core
               IN  /\ StartsSubtitle(items, k) /\ PlainCore(core)
                   /\ HasAlnum(items[k - 2].segment)
                   /\ Lower(core) \in ActiveStopwords
                   /\ Len(CleanAlnum(core)) < ActiveStyle.min_length_capitalize
                   /\ core = Lower(core)
                   /\ OutItem(suggestion, items, k) = WithCore(items, k, Capitalize(core))

\* C7: a word whose core is case-insensitively an entry of the known
\* mixed-case table is emitted in the table's spelling, at every position,
\* between its own leading and trailing punctuation
KnownCanonical ==
    pc = "suggested" =>
        LET items == Items(title)
        IN  \A k \in DOMAIN items :
                IsWord(items, k) =>
                    \A known \in KNOWN_MIXED_CASE :
                        Lower(known) = Lower(Groups(items, k).core)
                            => OutItem(suggestion, items, k) = WithCore(items, k, known)

\* a known term written in lowercase, as the first word with punctuation
\* after it, and a known term elsewhere
KnownWitness ==
    /\ pc = "suggested"
    /\ LET items == Items(title)
       IN  /\ \E k \in DOMAIN items :
                  /\ FirstWord(items, k) /\ IsKnown(Groups(items, k).core)
                  /\ Groups(items, k).core = Lower(Groups(items, k).core)
                  /\ Groups(items, k).suffix # <<>>
                  /\ OutItem(suggestion, items, k) # items[k].segment
           /\ \E k \in DOMAIN items :
                  /\ IsWord(items, k) /\ ~Forced(items, k)
                  /\ IsKnown(Groups(items, k).core)

\* C8: the first word of the title -- the first token outside protected
\* spans that holds a letter or digit -- is force-capitalised, whatever
\* punctuation-only tokens stand before it
FirstWordForced ==
    pc = "suggested" =>
        LET items == Items(title)
        IN  \A k \in DOMAIN items :
                FirstWord(items, k) /\ PlainCore(Groups(items, k).core)
                    => OutItem(suggestion, items, k)
                           = WithCore(items, k, Capitalize(Groups(items, k).core))

\* C9: get_style returns the "apa" style for None and for the empty
\* string, the registered style for a registered name in any letter case,
\* and the "apa" style for every other name
StyleDefaulting ==
    pc = "looked up" =>
        /\ style \in {STYLES[n] : n \in DOMAIN STYLES}
        /\ style_name \in {None, <<>>} => style = STYLES[APA]
        /\ \A n \in DOMAIN STYLES : Lower(style_name) = n => style = STYLES[n]
        /\ Lower(style_name) \notin DOMAIN STYLES => style = STYLES[APA]

\* the name "apa" written in another letter case was looked up
StyleWitness ==
    /\ pc = "looked up"
    /\ style_name \notin {None, <<>>, APA}
    /\ Lower(style_name) = APA
    /\ style = STYLES[APA]

\* the positions of the braces that stand in text segments, outside every
\* span of the scan: the unmatched braces
UnmatchedBraces(t) ==
    LET items == Items(t)
    IN  {Offset(items, k) + i : k \in DOMAIN items, i \in 1..Len(t)}
            \cap {p \in DOMAIN t :
                     /\ t[p] \in {"{", "}"}
                     /\ \E k \in DOMAIN items :
                            /\ items[k].kind = "tok"
                            /\ p > Offset(items, k)
                            /\ p <= Offset(items, k) + Len(items[k].segment)}

\* the text with the braces at the positions P written as parentheses
Parenthesised(t, P) ==
    [i \in DOMAIN t |->
        IF i \in P THEN (IF t[i] = "{" THEN "(" ELSE ")") ELSE t[i]]

\* C10: every call returns a suggestion; the empty title gives the empty
\* string; a title without a letter or digit outside its protected spans is
\* returned unchanged; an unmatched brace counts as ordinary punctuation of
\* its token, so the title is cased as it is with a parenthesis in its place
TotalOnStrings ==
    pc = "suggested" =>
           /\ suggestion \in Seq(STRING)
           /\ title = <<>> => suggestion = <<>>
           /\ (\A k \in DOMAIN Items(title) : ~IsWord(Items(title), k))
                  => suggestion = title
           /\ LET P == UnmatchedBraces(title)
              IN  P # {} =>
                      Parenthesised(suggestion, P)
                          = suggest_title_case(Parenthesised(title, P),
                                               stopwords, style_name)

\* a word with an unmatched brace was re-cased
TotalWitness ==
    /\ pc = "suggested"
    /\ suggestion # title
    /\ \E p \in UnmatchedBraces(title) :
           /\ title[p] = "{"
           /\ p < Len(title) /\ IsAlnum(title[p + 1])
           /\ suggestion[p + 1] # title[p + 1]

\* C11: whatever calls were made before, the style registry, the APA
\* stopword set, the known mixed-case table and the lowercase-prefix table
\* are as they were on import, and the suggestion of a call is the value
\* that suggest_title_case has for the call's three arguments alone
Purity ==
    /\ tables = ModuleTables
    /\ pc \in {"suggested", "checked"}
           => suggestion = suggest_title_case(title, stopwords, style_name)

\* a call with the default stopwords on a title with a word that command
\* lines add to their stopwords
PurityWitness ==
    /\ pc = "suggested"
    /\ stopwords = NoStopwords
    /\ title = <<"a", " ", "a", "b">>
    /\ suggestion = <<"A", " ", "A", "b">>

\* C12: under style "apa" with the default stopwords the two documented
\* examples come out as 'A Study on {BERT} and Resnet50 Performance' and
\* 'A Study on Machine Learning'
FixtureOutputs ==
    pc = "suggested" /\ stopwords = NoStopwords /\ style_name = APA =>
        /\ title = BertTitle =>
               suggestion =
                   <<"A", " ", "S", "t", "u", "d", "y", " ", "o", "n", " ", "{", "B",
                     "E", "R", "T", "}", " ", "a", "n", "d", " ", "R", "e", "s", "n",
                     "e", "t", "5", "0", " ", "P", "e", "r", "f", "o", "r", "m", "a",
                     "n", "c", "e">>
        /\ title = LearningTitle =>
               suggestion =
                   <<"A", " ", "S", "t", "u", "d", "y", " ", "o", "n", " ", "M", "a",
                     "c", "h", "i", "n", "e", " ", "L", "e", "a", "r", "n", "i", "n",
                     "g">>

\* the example with the braced acronym was cased
FixtureWitness ==
    /\ pc = "suggested"
    /\ title = BertTitle
    /\ suggestion # title

\* the suggestion made when exactly the set words decides what a stopword
\* is
SuggestedWith(t, words, name) ==
    LET parts == Segments(t)
    IN  Rebuild(RebuildItems(parts), 1, 0, <<>>, Len(word_positions(parts)),
                words, get_style(name))

\* C18: a stopword set that is passed is the set used for every stopword
\* decision, in place of the style's stopwords; without one the style's
\* stopwords are used
CustomStopwordsUsed ==
    pc = "suggested" =>
        suggestion = SuggestedWith(title,
                                   IF stopwords.given THEN stopwords.words
                                   ELSE ActiveStyle.stopwords,
                                   style_name)

\* a lower-case letter directly followed by an upper-case one
Transition(core) ==
    \E i \in 2..Len(core) : core[i] \in UpperSet /\ core[i - 1] \in LowerSet

\* no hyphen and no slash
Uncompounded(core) == \A i \in DOMAIN core : core[i] \notin {"-", "/"}

\* C19: a word without hyphen or slash that is all upper-case with length
\* >= 2, or that has a lower-to-upper transition, is not rewritten to Title
\* Case and not lowercased, at any position and with any stopword set
CapitalsOverForcing ==
    pc = "suggested" =>
        LET items == Items(title)
        IN  \A k \in DOMAIN items :
                LET core == Groups(items, k).core
                    out == OutItem(suggestion, items, k)
                IN  /\ IsWord(items, k) /\ Uncompounded(core)
                    /\ UpperCased(core) \/ Transition(core)
                    /\ out # items[k].segment
                    => /\ out # WithCore(items, k, Capitalize(core))
                       /\ out # WithCore(items, k, Lower(core))

\* a word with a lower-to-upper transition whose lowercase form is a
\* stopword stood first and was emitted as it was
CapitalsWitness ==
    /\ pc = "suggested"
    /\ LET items == Items(title)
       IN  \E k \in DOMAIN items :
               /\ FirstWord(items, k)
               /\ Uncompounded(Groups(items, k).core)
               /\ Transition(Groups(items, k).core)
               /\ Lower(Groups(items, k).core) \in ActiveStopwords
               /\ OutItem(suggestion, items, k) = items[k].segment

SplitParts(core) ==
    IF \E i \in DOMAIN core : core[i] = "/" THEN SplitOn(core, "/") ELSE SplitOn(core, "-")

\* the core of the word at item k as it stands in the output
OutCore(out, items, k) ==
    SubSeq(OutItem(out, items, k),
           Len(Groups(items, k).prefix) + 1,
           Len(Groups(items, k).prefix) + Len(Groups(items, k).core))

SourceEntries == ParseEntries(ReadLines(source))

\* the suggestion check_title_case makes for a title
Suggested(t) ==
    suggest_title_case(t, CheckStopwords(STYLES, stopwords, style_name), style_name)

\* the entry has a non-empty title that differs from its suggestion after
\* every whitespace run is collapsed
Differs(entry) ==
    /\ entry.title \notin {None, <<>>}
    /\ Normalize(entry.title) # Normalize(Suggested(entry.title))

\* the index of the entry that line i of the file belongs to, 0 before the
\* first entry
EntryOfLine(lines, i) ==
    Cardinality({jp \in (1..i) \X (1..Len(Flatten(lines))) :
                    jp[2] <= Len(lines[jp[1]]) /\ lines[jp[1]][jp[2]] = "@"})

\* C13: when apply mode has rewritten the file, a line that differs from
\* the line of the file as it was found is a title assignment of an entry
\* of the list changed and holds that entry's own new title; every other
\* line is as it was
ApplyFrame ==
    pc = "returned" /\ apply /\ ~interactive /\ source # Missing =>
        /\ Len(file) = Len(source)
        /\ \A i \in DOMAIN source :
               file[i] # source[i] =>
                   LET k == EntryOfLine(source, i)
                       m_title == TitleMatch(source[i])
                   IN  /\ k >= 1
                       /\ m_title.matched
                       /\ \E c \in DOMAIN changed :
                              /\ changed[c][1] = SourceEntries[k].ID
                              /\ changed[c][2] = SourceEntries[k].title
                              /\ file[i] = m_title.prefix \o changed[c][3] \o m_title.suffix

\* C14: when apply mode has returned, every entry of the returned list has
\* its new title as its title in the file, on one line or on several, and
\* the number of replacements is the length of the list
ApplyComplete ==
    pc = "returned" /\ apply /\ ~interactive /\ source # Missing =>
        /\ replacements = Len(changed)
        /\ Len(ParseEntries(file)) = Len(SourceEntries)
        /\ \A k \in DOMAIN SourceEntries :
               Differs(SourceEntries[k]) =>
                   /\ \E c \in DOMAIN changed :
                          changed[c] = <<SourceEntries[k].ID, SourceEntries[k].title,
                                         Suggested(SourceEntries[k].title)>>
                   /\ ParseEntries(file)[k].title = Suggested(SourceEntries[k].title)

\* the list that reports exactly the entries that differ, in document order
ReportOf(found) ==
    LET reported == SelectSeq(found, Differs)
    IN  [c \in DOMAIN reported |->
            <<reported[c].ID, reported[c].title, Suggested(reported[c].title)>>]

\* C15: an entry is reported -- listed in check and apply mode, prompted in
\* interactive mode -- if and only if it has a non-empty title that differs
\* from its suggestion after every whitespace run is collapsed to a space
ChangeDetection ==
    /\ pc = "returned" /\ ~interactive /\ source # Missing
           => changed = ReportOf(SourceEntries)
    /\ interactive /\ pc \notin {"start", "returned", "finish"} =>
           /\ \A p \in DOMAIN prompts : Differs(SourceEntries[prompts[p].entry])
           /\ \A k \in 1..(position - 1) :
                  Differs(SourceEntries[k]) => \E p \in DOMAIN prompts : prompts[p].entry = k
           /\ pc \in {"choice", "edit"} => Differs(SourceEntries[position])

\* a file with an entry that was reported and an entry whose title needs
\* no change
ChangeDetectionWitness ==
    /\ pc = "returned" /\ ~interactive /\ source # Missing
    /\ Len(changed) = 1
    /\ \E k \in DOMAIN SourceEntries :
           SourceEntries[k].title \notin {None, <<>>} /\ ~Differs(SourceEntries[k])

\* the answer is a quit at the choice prompt
IsQuit(prompt) ==
    /\ prompt.question = "choice"
    /\ \/ prompt.answer = EndOfInput
       \/ Lower(Strip(prompt.answer)) \in {<<"q">>, <<"q", "u", "i", "t">>}

\* C16: in interactive mode the prompts follow the document order, the
\* file is written at most once and only when no prompt follows, no prompt
\* follows a quit, and after a quit every change of the list changed is in
\* the file that was written
InteractiveOrder ==
    interactive =>
        /\ \A p, q \in DOMAIN prompts : p <= q => prompts[p].entry <= prompts[q].entry
        /\ writes <= 1
        /\ writes = 1 => pc = "returned"
        /\ \A p \in DOMAIN prompts : IsQuit(prompts[p]) => p = Len(prompts)
        /\ /\ pc = "returned"
           /\ \E p \in DOMAIN prompts : IsQuit(prompts[p])
           => \A c \in DOMAIN changed :
                  /\ writes = 1
                  /\ \E k \in DOMAIN SourceEntries :
                         /\ SourceEntries[k].ID = changed[c][1]
                         /\ SourceEntries[k].title = changed[c][2]
                         /\ ParseEntries(file)[k].title = changed[c][3]

\* C17: when the path names no file, the call logs the error, returns the
\* empty list, prompts for nothing and neither creates nor writes a file,
\* in every mode
MissingFile ==
    source = Missing =>
        /\ pc \in {"start", "returned"}
        /\ file = Missing
        /\ writes = 0
        /\ changed = <<>>
        /\ prompts = <<>>
        /\ pc = "returned" => log = <<"error: file not found">>

\* the call returned for a missing file in apply and interactive mode
MissingFileWitness ==
    /\ source = Missing
    /\ pc = "returned"
    /\ apply /\ interactive

(***************************************************************************)
(* Properties of compound words and protected spans.                       *)
(***************************************************************************)
\* the core holds the character c
Holds(core, c) == \E i \in DOMAIN core : core[i] = c

\* C21: under style "apa" with the default stopwords, in a hyphenated word
\* at a position that is not forced (not the first word, not after a
\* subtitle delimiter) every part after the first whose lowercase form is a
\* lowercase prefix is emitted in lowercase
PrefixPartsLowered ==
    pc = "suggested" /\ stopwords = NoStopwords /\ style_name = APA =>
        LET items == Items(title)
        IN  \A k \in DOMAIN items :
                LET core == Groups(items, k).core
                    parts == SplitOn(core, "-")
                    outparts == SplitOn(OutCore(suggestion, items, k), "-")
                IN  /\ IsWord(items, k) /\ ~IsKnown(core)
                    /\ Holds(core, "-") /\ ~Holds(core, "/")
                    /\ ~Forced(items, k)
                    => \A j \in 2..Len(parts) :
                           /\ PlainCore(parts[j])
                           /\ Lower(parts[j]) \in _LOWERCASE_PREFIXES
                           => outparts[j] = Lower(parts[j])

\* a part cased as a word that stands alone at a position that is not
\* forced: a known exception in the table's spelling, an acronym or a part
\* with internal capitals unchanged, else capitalised if and only if it is
\* long enough or not a stopword
StandaloneCased(part) ==
    IF IsKnown(part) THEN _get_known_mixed_case(part)
    ELSE IF UpperCased(part) \/ Transition(part) THEN part
    ELSE IF \/ Len(CleanAlnum(part)) >= ActiveStyle.min_length_capitalize
            \/ Lower(part) \notin ActiveStopwords
         THEN Capitalize(part)
         ELSE Lower(part)

\* C22: the sub-parts of a core with a slash are each cased as a word that
\* stands alone, and only the first inherits the forced status of the word;
\* so a sub-part after the first, and the first sub-part of a word that is
\* not forced, is lowercased when it is a short stopword
SlashPartsCasedAlone ==
    pc = "suggested" /\ stopwords = NoStopwords /\ style_name = APA =>
        LET items == Items(title)
        IN  \A k \in DOMAIN items :
                LET core == Groups(items, k).core
                    parts == SplitOn(core, "/")
                    outparts == SplitOn(OutCore(suggestion, items, k), "/")
                IN  /\ IsWord(items, k) /\ ~IsKnown(core)
                    /\ Holds(core, "/") /\ ~Holds(core, "-")
                    => \A j \in DOMAIN parts :
                           (j = 1 => ~Forced(items, k))
                               => outparts[j] = StandaloneCased(parts[j])

(***************************************************************************)
(* Properties of _titlecase_word.                                          *)
(***************************************************************************)
\* the number of letters and digits of a core
AlnumCount(core) == Cardinality({i \in DOMAIN core : IsAlnum(core[i])})

\* the first character upper-cased and the rest lower-cased
FirstUpperRestLower(core) == <<CharUpper(core[1])>> \o Lower(Tail(core))

\* C23: a word whose core has no hyphen and no slash, is not a known
\* exception, is not all upper-case of length >= 2 and has no internal
\* capitals is emitted with its core capitalised (first character upper-
\* cased, the rest lower-cased) if the word is forced, or the core has at
\* least min_length_capitalize letters and digits, or the lower-cased core
\* is not an element of the stopword set; otherwise with its core lower-
\* cased; the leading and trailing punctuation stands unchanged around it
PlainWordRule ==
    pc = "cased" =>
        LET g == WordGroups(word)
            major == \/ force_capitalize
                     \/ AlnumCount(g.core) >= get_style(style_name).min_length_capitalize
                     \/ \A s \in stopwords.words : s # Lower(g.core)
        IN  PlainCore(g.core) =>
                cased = g.prefix
                            \o (IF major THEN FirstUpperRestLower(g.core) ELSE Lower(g.core))
                            \o g.suffix

\* a short word between punctuation that begins with a stopword and is not
\* one was capitalised at a position that is not forced
PlainWordWitness ==
    /\ pc = "cased"
    /\ ~force_capitalize
    /\ LET g == WordGroups(word)
       IN  /\ PlainCore(g.core)
           /\ g.prefix # <<>> /\ g.suffix # <<>>
           /\ AlnumCount(g.core) < get_style(style_name).min_length_capitalize
           /\ Lower(g.core) \notin stopwords.words
           /\ \E s \in stopwords.words :
                  Len(s) < Len(g.core) /\ SubSeq(Lower(g.core), 1, Len(s)) = s
           /\ cased = g.prefix \o FirstUpperRestLower(g.core) \o g.suffix
           /\ cased # word

\* C24: a protected span takes no word index and gets no casing decision:
\* every span is emitted as it is, and in a title that begins with a
\* protected span the first word after the spans -- the first token outside
\* them that holds a letter or digit -- is force-capitalised
FirstWordAfterSpans ==
    pc = "suggested" =>
        LET items == Items(title)
        IN  items # <<>> /\ items[1].kind = "braced" =>
                /\ \A k \in DOMAIN items :
                       items[k].kind = "braced"
                           => OutItem(suggestion, items, k) = items[k].segment
                /\ \A k \in DOMAIN items :
                       FirstWord(items, k) /\ PlainCore(Groups(items, k).core)
                           => OutItem(suggestion, items, k)
                                  = WithCore(items, k, Capitalize(Groups(items, k).core))

\* the first word stands directly after the spans that begin the title:
\* only protected spans and whitespace stand before it
DirectlyAfterSpans(items, k) ==
    /\ FirstWord(items, k)
    /\ items[1].kind = "braced"
    /\ \A j \in 1..(k - 1) : items[j].kind = "braced" \/ IsSpace(items[j].segment)

\* the part of C24 that the code keeps: with nothing but protected spans
\* and whitespace before it, the first word is force-capitalised
FirstWordDirectlyAfterSpans ==
    pc = "suggested" =>
        LET items == Items(title)
        IN  \A k \in DOMAIN items :
                DirectlyAfterSpans(items, k) /\ PlainCore(Groups(items, k).core)
                    => OutItem(suggestion, items, k)
                           = WithCore(items, k, Capitalize(Groups(items, k).core))

(***************************************************************************)
(* Properties of the last word.                                            *)
(***************************************************************************)
\* the style of the call, looked up in the registry as it stands
RegistryStyle == GetStyleIn(tables.STYLES, style_name)

\* item k follows a token that ends in a subtitle delimiter of the style
AfterDelimiterOf(st, items, k) ==
    LET j == PrevToken(items, k)
    IN  j # 0 /\ items[j].segment[Len(items[j].segment)] \in st.subtitle_delimiters

\* C25: under a style whose capitalize_last_word is true the last word of
\* the title -- the last token outside protected spans that holds a letter
\* or digit -- is capitalised, also when it is a short stopword and when
\* the title holds punctuation-only tokens; under a style whose
\* capitalize_last_word is false a last word that is a short stopword, is
\* not the first word and follows no delimiter is lowercased
LastWordForced ==
    pc = "suggested" =>
        LET items == Items(title)
            st == RegistryStyle
        IN  \A k \in DOMAIN items :
                LET core == Groups(items, k).core
                    out == OutItem(suggestion, items, k)
                IN  LastWord(items, k) /\ PlainCore(core) =>
                        /\ st.capitalize_last_word
                               => out = WithCore(items, k, Capitalize(core))
                        /\ /\ ~st.capitalize_last_word
                           /\ ~FirstWord(items, k)
                           /\ ~AfterDelimiterOf(st, items, k)
                           /\ Lower(core) \in st.stopwords
                           /\ Len(CleanAlnum(core)) < st.min_length_capitalize
                           => out = WithCore(items, k, Lower(core))

\* C26: word boundaries are whitespace only -- a token that holds a
\* protected span is one word, so the letters that directly follow the span
\* are not the start of a word and are not capitalised as one: a plain
\* run of letters that begins in lowercase directly after a span begins in
\* lowercase in the suggestion
AbuttingLettersNotCapitalised ==
    pc = "suggested" =>
        LET items == Items(title)
        IN  \A k \in DOMAIN items :
                LET core == Groups(items, k).core
                IN  /\ k > 1 /\ items[k - 1].kind = "braced"
                    /\ IsWord(items, k) /\ PlainCore(core)
                    /\ Groups(items, k).prefix = <<>>
                    /\ core[1] \in LowerSet
                    => OutCore(suggestion, items, k)[1] = core[1]

\* the word at item k is a plain short stopword: it is capitalised only
\* when it is forced
ShortStopword(items, k) ==
    LET core == Groups(items, k).core
    IN  /\ IsWord(items, k) /\ PlainCore(core)
        /\ Lower(core) \in ActiveStopwords
        /\ Len(CleanAlnum(core)) < ActiveStyle.min_length_capitalize

\* C27: whether a word is forced as the start of a subtitle depends only
\* on the nearest token of plain text before it, whitespace runs skipped; a
\* protected span in between neither sets nor clears it.  A short stopword
\* with such a token before it is capitalised if that token ends in a
\* subtitle delimiter and lowercased if it does not, whatever protected
\* spans stand between them and whatever their text ends in
SubtitleStateAcrossSpans ==
    pc = "suggested" =>
        LET items == Items(title)
        IN  \A k \in DOMAIN items :
                LET core == Groups(items, k).core
                    j == PrevToken(items, k)
                IN  ShortStopword(items, k) /\ j # 0 =>
                        OutItem(suggestion, items, k)
                            = WithCore(items, k,
                                       IF items[j].segment[Len(items[j].segment)]
                                              \in ActiveStyle.subtitle_delimiters
                                       THEN Capitalize(core) ELSE Lower(core))

\* a protected span stands between item k and the nearest token before it
SpanBefore(items, k) ==
    \E m \in (PrevToken(items, k) + 1)..(k - 1) : items[m].kind = "braced"

\* the text of the protected span at item m ends in a subtitle delimiter
SpanEndsInDelimiter(items, m) ==
    /\ items[m].kind = "braced"
    /\ Len(items[m].segment) >= 3
    /\ items[m].segment[Len(items[m].segment) - 1] \in ActiveStyle.subtitle_delimiters

\* a short stopword was capitalised after a token ending in a delimiter and
\* a protected span, and another was lowercased after a protected span
\* whose text ends in a delimiter
SubtitleStateWitness ==
    /\ pc = "suggested"
    /\ LET items == Items(title)
       IN  /\ \E k \in DOMAIN items :
                  /\ ShortStopword(items, k)
                  /\ PrevToken(items, k) # 0 /\ SpanBefore(items, k)
                  /\ AfterDelimiter(items, k)
                  /\ OutItem(suggestion, items, k) # items[k].segment
                  /\ OutItem(suggestion, items, k)
                         = WithCore(items, k, Capitalize(Groups(items, k).core))
           /\ \E k \in DOMAIN items :
                  /\ ShortStopword(items, k)
                  /\ PrevToken(items, k) # 0 /\ ~AfterDelimiter(items, k)
                  /\ \E m \in (PrevToken(items, k) + 1)..(k - 1) :
                         SpanEndsInDelimiter(items, m)
                  /\ OutItem(suggestion, items, k) = items[k].segment
                  /\ Groups(items, k).core = Lower(Groups(items, k).core)

(***************************************************************************)
(* Properties of the modes of check_title_case.                            *)
(***************************************************************************)
\* C28: a call with apply=False and interactive=False never writes the
\* file, however many titles differ from their suggestion; a call in
\* interactive mode does not write the file when no suggestion was accepted
\* or edited
ReadOnlyModes ==
    /\ ~apply /\ ~interactive => writes = 0 /\ file = source
    /\ interactive /\ changed = <<>> => writes = 0 /\ file = source

\* the part of C28 that the code keeps: without apply the file is written
\* only in interactive mode and only when a suggestion was accepted or
\* edited
ReadOnlyWithoutApply ==
    ~apply /\ (~interactive \/ changed = <<>>) => writes = 0 /\ file = source

\* the choice typed at a prompt, as the loop reads it
ChoiceOf(prompt) ==
    IF prompt.answer = EndOfInput THEN <<"q">> ELSE Lower(Strip(prompt.answer))

IsAccept(prompt) ==
    prompt.question = "choice" /\ ChoiceOf(prompt) \in {<<"a">>, <<"a", "c", "c", "e", "p", "t">>}

IsSkip(prompt) ==
    \/ prompt.question = "choice" /\ ChoiceOf(prompt) \in {<<"s">>, <<"s", "k", "i", "p">>}
    \/ prompt.question = "edit" /\ (prompt.answer = EndOfInput \/ Strip(prompt.answer) = <<>>)

IsEdit(prompt) ==
    prompt.question = "edit" /\ prompt.answer # EndOfInput /\ Strip(prompt.answer) # <<>>

IsInvalid(prompt) ==
    /\ prompt.question = "choice"
    /\ ~IsAccept(prompt) /\ ~IsSkip(prompt) /\ ~IsQuit(prompt)
    /\ ChoiceOf(prompt) \notin {<<"e">>, <<"e", "d", "i", "t">>}

\* the number of prompts that satisfy Test
CountPrompts(Test(_)) == Cardinality({p \in DOMAIN prompts : Test(prompts[p])})

\* the number of messages m given to log
CountLog(m) == Cardinality({i \in DOMAIN log : log[i] = m})

\* the counters accepted, edited and skipped of the loop, each counted up
\* where its message is logged
accepted == CountLog("accepted")

edited == CountLog("custom title saved")

skipped == CountLog("skipped") + CountLog("empty input, skipped")

\* the list of the accepted and the edited entries, in prompt order
ChosenOf(answers) ==
    LET chosen == SelectSeq(answers, LAMBDA a : IsAccept(a) \/ IsEdit(a))
    IN  [c \in DOMAIN chosen |->
            LET entry == SourceEntries[chosen[c].entry]
            IN  <<entry.ID, entry.title,
                  IF IsAccept(chosen[c]) THEN Suggested(entry.title)
                  ELSE Strip(chosen[c].answer)>>]

\* the list and the counters of an interactive run: the list holds exactly
\* the accepted and the edited entries in prompt order, the counters count
\* the answers given, and an invalid choice is followed by a prompt for the
\* same entry
InteractiveList ==
    interactive =>
        /\ changed = ChosenOf(prompts)
        /\ accepted = CountPrompts(IsAccept)
        /\ edited = CountPrompts(IsEdit)
        /\ skipped = CountPrompts(IsSkip)
        /\ accepted + edited = Len(changed)
        /\ accepted + edited + skipped
               <= Cardinality({prompts[p].entry : p \in DOMAIN prompts})
        /\ \A p \in DOMAIN prompts :
               IsInvalid(prompts[p]) =>
                   /\ p < Len(prompts) =>
                          /\ prompts[p + 1].entry = prompts[p].entry
                          /\ prompts[p + 1].question = "choice"
                   /\ p = Len(prompts) =>
                          pc = "choice" /\ position = prompts[p].entry

\* entry k was skipped, edited with empty text or quit at, or stands after
\* the entry that was quit at
Declined(k) ==
    \/ \E p \in DOMAIN prompts :
           prompts[p].entry = k /\ (IsSkip(prompts[p]) \/ IsQuit(prompts[p]))
    \/ \E p \in DOMAIN prompts : IsQuit(prompts[p]) /\ k > prompts[p].entry

\* C29: in interactive mode, with or without apply, the returned list holds
\* exactly the accepted entries with their suggestion and the entries
\* edited with non-empty text with the typed title, in prompt order;
\* accepted + edited is the length of the list and accepted + edited +
\* skipped is at most the number of prompted entries; an invalid choice
\* prompts again for the same entry and changes no counter; and an entry
\* that was skipped, edited with empty text, quit at or not reached has the
\* title it had in the file that is left
InteractiveResult ==
    /\ InteractiveList
    /\ interactive /\ pc = "returned" /\ source # Missing =>
           /\ Len(ParseEntries(ReadLines(file))) = Len(SourceEntries)
           /\ \A k \in DOMAIN SourceEntries :
                  Declined(k) => ParseEntries(ReadLines(file))[k].title
                                     = SourceEntries[k].title
====
